---- MODULE Spec2Model ----
(***************************************************************************)
(* Model of the audio core of revia_native.cpp: the AudioRingBuffer        *)
(* (ring_create / ring_write / ring_read / ring_available / ring_clear),   *)
(* the frame scanner vad_detect_frames, the segment extractor              *)
(* find_voiced_segments, audio_preemphasis and audio_resample_linear.      *)
(*                                                                         *)
(* Samples are floats in the source.  The ring buffer never inspects a     *)
(* sample, so there a sample is a label: the k-th sample ever offered to   *)
(* ring_write is the integer k, and the zero fill of ring_create is 0.     *)
(* The classifiers only compare sums of squares and counts of sign changes *)
(* against thresholds, so there a sample is a small integer amplitude and  *)
(* a threshold is the integer (or ratio of integers) it is compared with.  *)
(* Every uint32_t value in the model stays far below 2^31 (the inputs are  *)
(* drawn from small sets), where uint32_t arithmetic is exact integer      *)
(* arithmetic; no guarded decrement is reached at 0.  The doubles of       *)
(* audio_resample_linear decide its indices, so they are carried with      *)
(* their IEEE-754 rounding.                                                *)
(***************************************************************************)
EXTENDS Integers, Sequences, FiniteSets, TLC

VARIABLES
    rb,        \* the AudioRingBuffer struct: buf, capacity, write_pos, read_pos, count
    lastOp,    \* history: the last completed ring call, its arguments, results and pre-state
    fifo,      \* history: the samples accepted by writes and not yet returned or cleared
    phase,     \* history: "writes" while only ring_write ran since ring_create, "read1" after the first read
    nextVal,   \* history: number of samples offered to ring_write so far
    ops,       \* history: number of ring calls made so far
    hist,      \* history: all samples accepted by writes, all samples returned by reads, whether ring_clear ran
    mode,      \* concurrent use: "atomic" (calls under a mutex) or "interleaved"
    w,         \* concurrent use: the producer's call frame (pc, n, i, written, tmp)
    r,         \* concurrent use: the consumer's call frame (pc, n, i, read, tmp)
    accepted,  \* concurrent use: sum of the values returned by ring_write
    returned,  \* concurrent use: sum of the values returned by ring_read
    sin,       \* find_voiced_segments: the arguments
    sg,        \* find_voiced_segments: locals, outputs and position
    vin,       \* vad_detect_frames: the arguments
    vd,        \* vad_detect_frames: locals, outputs and position
    pin,       \* audio_preemphasis: the arguments (the original samples, n, coeff)
    pe,        \* audio_preemphasis: the samples being filtered in place, the loop index and position
    rin,       \* audio_resample_linear: the arguments
    rs         \* audio_resample_linear: locals, outputs and position

ringVars == <<rb, lastOp, fifo, phase, nextVal, ops, hist>>
concVars == <<mode, w, r, accepted, returned>>
segVars  == <<sin, sg>>
vadVars  == <<vin, vd>>
dspVars  == <<pin, pe, rin, rs>>
vars     == <<rb, lastOp, fifo, phase, nextVal, ops, hist, mode, w, r, accepted, returned,
              sin, sg, vin, vd, pin, pe, rin, rs>>

(***************************************************************************)
(* Bounds                                                                  *)
(***************************************************************************)
MaxCap == 3        \* ring capacities 0..MaxCap
MaxN == 4          \* the n argument of ring_write / ring_read ranges over 0..MaxN
MaxOps == 5        \* ring calls per behaviour
MaxCapConc == 2    \* concurrent use: ring capacities 0..MaxCapConc
MaxNConc == 2      \* concurrent use: n ranges over 0..MaxNConc
MaxCallsConc == 3  \* concurrent use: calls started per behaviour
MaxSegLen == 5     \* find_voiced_segments: n ranges over 0..MaxSegLen
MaxFrameMs == 2    \* find_voiced_segments: frame_ms ranges over 0..MaxFrameMs
MaxDurMs == 3      \* find_voiced_segments: min_dur_ms, max_dur_ms range over 0..MaxDurMs
MaxSegments == 2   \* find_voiced_segments: max_segments ranges over 0..MaxSegments
MaxThresh == 1     \* energy threshold as a mean-square power 0..MaxThresh (0: at or below -100 dB)
MaxVadLen == 4     \* vad_detect_frames: total_samples ranges over 0..MaxVadLen
MaxVadFrame == 3   \* vad_detect_frames: frame_size ranges over 0..MaxVadFrame
MaxHop == 3        \* vad_detect_frames: hop_size ranges over 0..MaxHop
MaxPreLen == 4     \* audio_preemphasis: n ranges over 0..MaxPreLen
MaxCoeff == 2      \* audio_preemphasis: coeff ranges over 0..MaxCoeff
MaxOutCap == 8     \* audio_resample_linear: out_capacity ranges over 0..MaxOutCap

Min(a, b) == IF a < b THEN a ELSE b

(***************************************************************************)
(* AudioRingBuffer                                                         *)
(***************************************************************************)

\* ring_create(capacity): zero-filled storage, cursors and count 0.
ring_create(capacity) ==
    [buf       |-> [k \in 0 .. capacity - 1 |-> 0],
     capacity  |-> capacity,
     write_pos |-> 0,
     read_pos  |-> 0,
     count     |-> 0]

\* The loop condition of ring_write: i < n && rb->count < rb->capacity.
WriteCond(b, i, n) == i < n /\ b.count < b.capacity

\* Variants of WriteBody with a plausible slip: count++ forgotten; the write
\* cursor reduced modulo capacity + 1.
WriteBodyNoCount(b, x) ==
    [b EXCEPT !.buf       = [b.buf EXCEPT ![b.write_pos] = x],
              !.write_pos = (b.write_pos + 1) % b.capacity]
WriteBodyOffByOne(b, x) ==
    [b EXCEPT !.buf       = [b.buf EXCEPT ![b.write_pos] = x],
              !.write_pos = (b.write_pos + 1) % (b.capacity + 1),
              !.count     = b.count + 1]
\* Variant of WriteBody with a plausible slip: the write cursor is not advanced.
WriteBodyNoAdvance(b, x) ==
    [b EXCEPT !.buf   = [b.buf EXCEPT ![b.write_pos] = x],
              !.count = b.count + 1]
\* One iteration of the ring_write loop, storing sample x.
WriteBody(b, x) ==
    [b EXCEPT !.buf       = [b.buf EXCEPT ![b.write_pos] = x],
              !.write_pos = (b.write_pos + 1) % b.capacity,
              !.count     = b.count + 1]

\* Variant of ReadCond with a plausible slip: i <= n.
ReadCondInclusive(b, i, n) == i <= n /\ b.count > 0
\* The loop condition of ring_read: i < n && rb->count > 0.
ReadCond(b, i, n) == i < n /\ b.count > 0

\* Variant of ReadBody with a plausible slip: the read cursor is not advanced.
ReadBodyNoAdvance(b) ==
    [x  |-> b.buf[b.read_pos],
     rb |-> [b EXCEPT !.count = b.count - 1]]
\* Variant of ReadBody with a plausible slip: the consumed slot is zeroed.
ReadBodyZeroing(b) ==
    [x  |-> b.buf[b.read_pos],
     rb |-> [b EXCEPT !.buf      = [b.buf EXCEPT ![b.read_pos] = 0],
                      !.read_pos = (b.read_pos + 1) % b.capacity,
                      !.count    = b.count - 1]]
\* One iteration of the ring_read loop: the sample copied out and the new struct.
ReadBody(b) ==
    [x  |-> b.buf[b.read_pos],
     rb |-> [b EXCEPT !.read_pos = (b.read_pos + 1) % b.capacity,
                      !.count    = b.count - 1]]

RECURSIVE WriteLoop(_, _, _, _)
\* ring_write's for loop from index i on; written = i throughout.
WriteLoop(b, data, n, i) ==
    IF WriteCond(b, i, n)
    THEN WriteLoop(WriteBody(b, data[i + 1]), data, n, i + 1)
    ELSE [rb |-> b, ret |-> i]

RECURSIVE ReadLoop(_, _, _, _)
\* ring_read's for loop from index i on; out holds out[0..i-1], read = i.
ReadLoop(b, out, n, i) ==
    IF ReadCond(b, i, n)
    THEN ReadLoop(ReadBody(b).rb, Append(out, ReadBody(b).x), n, i + 1)
    ELSE [rb |-> b, out |-> out, ret |-> i]

\* The n samples offered by the next ring_write call: labels nextVal+1 .. nextVal+n.
Fresh(from, n) == [k \in 1 .. n |-> from + k]

Drop(s, k) == SubSeq(s, k + 1, Len(s))
Take(s, k) == SubSeq(s, 1, k)

NoOp == [op |-> "create", n |-> 0, ret |-> 0, data |-> <<>>, out |-> <<>>,
         pre |-> ring_create(0), queue |-> <<>>]

NoHist == [accepted |-> <<>>, returned |-> <<>>, cleared |-> FALSE]

InitRing ==
    /\ \E c \in 0 .. MaxCap : rb = ring_create(c)
    /\ lastOp = [NoOp EXCEPT !.pre = rb]
    /\ fifo = <<>>
    /\ phase = "writes"
    /\ nextVal = 0
    /\ ops = 0
    /\ hist = NoHist

IdleConc ==
    /\ mode = "none"
    /\ w = [pc |-> "idle"]
    /\ r = [pc |-> "idle"]
    /\ accepted = 0
    /\ returned = 0

IdleSeg == sin = <<>> /\ sg = [pc |-> "off"]
IdleVad == vin = <<>> /\ vd = [pc |-> "off"]
IdleDsp == pin = <<>> /\ pe = [pc |-> "off"] /\ rin = <<>> /\ rs = [pc |-> "off"]

\* uint32_t ring_write(AudioRingBuffer* rb, const float* data, uint32_t n)
RingWrite ==
    /\ ops < MaxOps
    /\ \E n \in 0 .. MaxN :
         LET data == Fresh(nextVal, n)
             res  == WriteLoop(rb, data, n, 0)
         IN /\ rb' = res.rb
            /\ lastOp' = [op |-> "write", n |-> n, ret |-> res.ret, data |-> data,
                          out |-> <<>>, pre |-> rb, queue |-> fifo]
            /\ fifo' = fifo \o Take(data, res.ret)
            /\ hist' = [hist EXCEPT !.accepted = @ \o Take(data, res.ret)]
            /\ nextVal' = nextVal + n
    /\ phase' = IF phase = "writes" THEN "writes" ELSE "other"
    /\ ops' = ops + 1
    /\ UNCHANGED <<concVars, segVars, vadVars, dspVars>>

\* uint32_t ring_read(AudioRingBuffer* rb, float* out, uint32_t n)
RingRead ==
    /\ ops < MaxOps
    /\ \E n \in 0 .. MaxN :
         LET res == ReadLoop(rb, <<>>, n, 0)
         IN /\ rb' = res.rb
            /\ lastOp' = [op |-> "read", n |-> n, ret |-> res.ret, data |-> <<>>,
                          out |-> res.out, pre |-> rb, queue |-> fifo]
            /\ fifo' = Drop(fifo, res.ret)
            /\ hist' = [hist EXCEPT !.returned = @ \o res.out]
    /\ phase' = IF phase = "writes" THEN "read1" ELSE "other"
    /\ ops' = ops + 1
    /\ UNCHANGED <<nextVal, concVars, segVars, vadVars, dspVars>>

\* uint32_t ring_available(const AudioRingBuffer* rb)
RingAvailable ==
    /\ ops < MaxOps
    /\ lastOp' = [op |-> "available", n |-> 0, ret |-> rb.count, data |-> <<>>,
                  out |-> <<>>, pre |-> rb, queue |-> fifo]
    /\ phase' = IF phase = "writes" THEN "writes" ELSE "other"
    /\ ops' = ops + 1
    /\ UNCHANGED <<rb, fifo, nextVal, hist, concVars, segVars, vadVars, dspVars>>

\* Variants of ring_clear with a plausible slip: count is not reset; read_pos is not reset.
ring_clearKeepsCount(b) == [b EXCEPT !.write_pos = 0, !.read_pos = 0]
ring_clearKeepsReadPos(b) == [b EXCEPT !.write_pos = 0, !.count = 0]
\* The three assignments of ring_clear.
ring_clear(b) == [b EXCEPT !.write_pos = 0, !.read_pos = 0, !.count = 0]

\* void ring_clear(AudioRingBuffer* rb)
RingClear ==
    /\ ops < MaxOps
    /\ rb' = ring_clear(rb)
    /\ lastOp' = [op |-> "clear", n |-> 0, ret |-> 0, data |-> <<>>,
                  out |-> <<>>, pre |-> rb, queue |-> fifo]
    /\ fifo' = <<>>
    /\ hist' = [hist EXCEPT !.cleared = TRUE]
    /\ phase' = "other"
    /\ ops' = ops + 1
    /\ UNCHANGED <<nextVal, concVars, segVars, vadVars, dspVars>>

Init == InitRing /\ IdleConc /\ IdleSeg /\ IdleVad /\ IdleDsp

Next == RingWrite \/ RingRead \/ RingAvailable \/ RingClear

Spec == Init /\ [][Next]_vars

(***************************************************************************)
(* Properties of the ring buffer, checked under Spec                       *)
(***************************************************************************)

\* C1: on a freshly created buffer, after ring_write calls offering at most
\* capacity samples in total, a ring_read of that total returns exactly the
\* offered samples in the order they were written.
C1_FillThenDrainInOrder ==
    (phase = "read1" /\ lastOp.op = "read"
        /\ nextVal <= rb.capacity /\ lastOp.n = nextVal)
    => (lastOp.ret = nextVal /\ lastOp.out = Fresh(0, nextVal))

\* A read of the whole content after two or more calls filled the buffer.
C1_Witness ==
    /\ phase = "read1" /\ lastOp.op = "read" /\ ops >= 3
    /\ nextVal = rb.capacity /\ nextVal >= 2
    /\ lastOp.n = nextVal /\ lastOp.out = Fresh(0, nextVal)

\* The stored samples from the oldest on, read off the storage: count samples from read_pos, modulo capacity.
RingContents ==
    [k \in 1 .. rb.count |-> rb.buf[(rb.read_pos + k - 1) % rb.capacity]]

\* C2: ring_available() is always within 0..capacity, and every ring_write
\* returns min(n, capacity - count at the call), dropping the rest.
C2_AvailableBoundedShortWrite ==
    /\ rb.count \in 0 .. rb.capacity
    /\ lastOp.op = "available" => lastOp.ret \in 0 .. rb.capacity
    /\ lastOp.op = "write" =>
          /\ lastOp.ret = Min(lastOp.n, lastOp.pre.capacity - lastOp.pre.count)
          /\ rb.count = lastOp.pre.count + lastOp.ret
          /\ RingContents = lastOp.queue \o Take(lastOp.data, lastOp.ret)

\* A write into a partly filled buffer that was cut short by the capacity.
C2_Witness ==
    /\ lastOp.op = "write" /\ lastOp.pre.count > 0
    /\ 0 < lastOp.ret /\ lastOp.ret < lastOp.n
    /\ lastOp.ret = lastOp.pre.capacity - lastOp.pre.count

\* C3: every ring_read returns min(n, count at the call), copies that many
\* samples starting from the oldest unread one, and decreases count by the
\* returned number; on an empty buffer it returns 0.
C3_ReadOldestFirst ==
    lastOp.op = "read" =>
        /\ lastOp.ret = Min(lastOp.n, lastOp.pre.count)
        /\ lastOp.out = Take(lastOp.queue, lastOp.ret)
        /\ rb.count = lastOp.pre.count - lastOp.ret
        /\ lastOp.pre.count = 0 => lastOp.ret = 0

\* A short read whose samples lie across the end of the storage.
C3_Witness ==
    /\ lastOp.op = "read"
    /\ 1 < lastOp.ret /\ lastOp.ret < lastOp.n
    /\ lastOp.pre.read_pos + lastOp.ret > rb.capacity
    /\ lastOp.out = Take(lastOp.queue, lastOp.ret)

\* C4 as stated: for every capacity C, including 0, 0 <= count <= C, both
\* cursors lie in [0, C), and capacity never changes.
C4_CursorsInRangeAnyCapacity ==
    /\ rb.count \in 0 .. rb.capacity
    /\ rb.write_pos \in 0 .. rb.capacity - 1
    /\ rb.read_pos \in 0 .. rb.capacity - 1
    /\ rb.capacity = lastOp.pre.capacity

\* C4 amended: 0 <= count <= C and capacity never changes; for C >= 1 both
\* cursors lie in [0, C); for C = 0 both cursors are 0.
C4_CursorsInRange ==
    /\ rb.count \in 0 .. rb.capacity
    /\ rb.capacity = lastOp.pre.capacity
    /\ DOMAIN rb.buf = 0 .. rb.capacity - 1
    /\ rb.capacity >= 1 => /\ rb.write_pos \in 0 .. rb.capacity - 1
                           /\ rb.read_pos \in 0 .. rb.capacity - 1
    /\ rb.capacity = 0 => rb.write_pos = 0 /\ rb.read_pos = 0

\* A write that took the write cursor round the end of the storage.
C4_Witness ==
    /\ lastOp.op = "write" /\ rb.capacity >= 2
    /\ lastOp.ret >= 2
    /\ rb.write_pos < lastOp.pre.write_pos
    /\ rb.read_pos > 0

(***************************************************************************)
(* One producer in ring_write and one consumer in ring_read, with no lock  *)
(* in the code: each step below is one statement of the loops, and the     *)
(* statements rb->count++ / rb->count-- are a load followed by a store.    *)
(* In mode "atomic" the caller holds a mutex round each call, so a thread  *)
(* steps only while the other is outside its call; in mode "interleaved"   *)
(* the steps of the two calls interleave freely.                           *)
(***************************************************************************)

IdleFrame == [pc |-> "idle", n |-> 0, i |-> 0, cnt |-> 0, tmp |-> 0, base |-> 0, out |-> <<>>]

InitConc ==
    /\ \E c \in 0 .. MaxCapConc : rb = ring_create(c)
    /\ mode \in {"atomic", "interleaved"}
    /\ w = IdleFrame
    /\ r = IdleFrame
    /\ accepted = 0
    /\ returned = 0
    /\ lastOp = [NoOp EXCEPT !.pre = rb]
    /\ fifo = <<>>
    /\ phase = "writes"
    /\ nextVal = 0
    /\ ops = 0
    /\ hist = NoHist

\* The caller's discipline: under a mutex a call runs only while the other thread is outside its call.
MayStep(other) == mode = "interleaved" \/ other.pc = "idle"

ringHist == <<lastOp, fifo, phase, hist>>

\* Producer enters ring_write(rb, data, n): written = 0, i = 0.
WCall ==
    /\ w.pc = "idle" /\ MayStep(r) /\ ops < MaxCallsConc
    /\ \E n \in 0 .. MaxNConc :
         /\ w' = [IdleFrame EXCEPT !.pc = "cond", !.n = n, !.base = nextVal]
         /\ nextVal' = nextVal + n
    /\ ops' = ops + 1
    /\ UNCHANGED <<rb, r, mode, accepted, returned, ringHist, segVars, vadVars, dspVars>>

\* Producer evaluates i < n && rb->count < rb->capacity.
WCond ==
    /\ w.pc = "cond" /\ MayStep(r)
    /\ w' = [w EXCEPT !.pc = IF WriteCond(rb, w.i, w.n) THEN "store" ELSE "ret"]
    /\ UNCHANGED <<rb, r, mode, accepted, returned, ringHist, nextVal, ops, segVars, vadVars, dspVars>>

\* Producer: rb->buf[rb->write_pos] = data[i].
WStore ==
    /\ w.pc = "store" /\ MayStep(r)
    /\ rb' = [rb EXCEPT !.buf = [rb.buf EXCEPT ![rb.write_pos] = w.base + w.i + 1]]
    /\ w' = [w EXCEPT !.pc = "adv"]
    /\ UNCHANGED <<r, mode, accepted, returned, ringHist, nextVal, ops, segVars, vadVars, dspVars>>

\* Producer: rb->write_pos = (rb->write_pos + 1) % rb->capacity.
WAdvance ==
    /\ w.pc = "adv" /\ MayStep(r)
    /\ rb' = [rb EXCEPT !.write_pos = (rb.write_pos + 1) % rb.capacity]
    /\ w' = [w EXCEPT !.pc = "load"]
    /\ UNCHANGED <<r, mode, accepted, returned, ringHist, nextVal, ops, segVars, vadVars, dspVars>>

\* Producer: the load of rb->count++.
WLoadCount ==
    /\ w.pc = "load" /\ MayStep(r)
    /\ w' = [w EXCEPT !.pc = "inc", !.tmp = rb.count]
    /\ UNCHANGED <<rb, r, mode, accepted, returned, ringHist, nextVal, ops, segVars, vadVars, dspVars>>

\* Variant of the stored value with a plausible slip: the loaded value is stored back unchanged.
IncrementedSame(c) == c
\* The value stored by rb->count++ after loading c.
Incremented(c) == c + 1

\* Producer: the store of rb->count++, then written++ and ++i.
WStoreCount ==
    /\ w.pc = "inc" /\ MayStep(r)
    /\ rb' = [rb EXCEPT !.count = Incremented(w.tmp)]
    /\ w' = [w EXCEPT !.pc = "cond", !.cnt = w.cnt + 1, !.i = w.i + 1]
    /\ UNCHANGED <<r, mode, accepted, returned, ringHist, nextVal, ops, segVars, vadVars, dspVars>>

\* Producer: return written.
WReturn ==
    /\ w.pc = "ret" /\ MayStep(r)
    /\ accepted' = accepted + w.cnt
    /\ w' = [w EXCEPT !.pc = "idle"]
    /\ UNCHANGED <<rb, r, mode, returned, ringHist, nextVal, ops, segVars, vadVars, dspVars>>

\* Consumer enters ring_read(rb, out, n): read = 0, i = 0.
RCall ==
    /\ r.pc = "idle" /\ MayStep(w) /\ ops < MaxCallsConc
    /\ \E n \in 0 .. MaxNConc : r' = [IdleFrame EXCEPT !.pc = "cond", !.n = n]
    /\ ops' = ops + 1
    /\ UNCHANGED <<rb, w, mode, accepted, returned, ringHist, nextVal, segVars, vadVars, dspVars>>

\* Consumer evaluates i < n && rb->count > 0.
RCond ==
    /\ r.pc = "cond" /\ MayStep(w)
    /\ r' = [r EXCEPT !.pc = IF ReadCond(rb, r.i, r.n) THEN "copy" ELSE "ret"]
    /\ UNCHANGED <<rb, w, mode, accepted, returned, ringHist, nextVal, ops, segVars, vadVars, dspVars>>

\* Consumer: out[i] = rb->buf[rb->read_pos].
RCopy ==
    /\ r.pc = "copy" /\ MayStep(w)
    /\ r' = [r EXCEPT !.pc = "adv", !.out = Append(r.out, rb.buf[rb.read_pos])]
    /\ UNCHANGED <<rb, w, mode, accepted, returned, ringHist, nextVal, ops, segVars, vadVars, dspVars>>

\* Consumer: rb->read_pos = (rb->read_pos + 1) % rb->capacity.
RAdvance ==
    /\ r.pc = "adv" /\ MayStep(w)
    /\ rb' = [rb EXCEPT !.read_pos = (rb.read_pos + 1) % rb.capacity]
    /\ r' = [r EXCEPT !.pc = "load"]
    /\ UNCHANGED <<w, mode, accepted, returned, ringHist, nextVal, ops, segVars, vadVars, dspVars>>

\* Consumer: the load of rb->count--.
RLoadCount ==
    /\ r.pc = "load" /\ MayStep(w)
    /\ r' = [r EXCEPT !.pc = "dec", !.tmp = rb.count]
    /\ UNCHANGED <<rb, w, mode, accepted, returned, ringHist, nextVal, ops, segVars, vadVars, dspVars>>

\* Consumer: the store of rb->count--, then read++ and ++i.
RStoreCount ==
    /\ r.pc = "dec" /\ MayStep(w)
    /\ rb' = [rb EXCEPT !.count = r.tmp - 1]
    /\ r' = [r EXCEPT !.pc = "cond", !.cnt = r.cnt + 1, !.i = r.i + 1]
    /\ UNCHANGED <<w, mode, accepted, returned, ringHist, nextVal, ops, segVars, vadVars, dspVars>>

\* Consumer: return read.
RReturn ==
    /\ r.pc = "ret" /\ MayStep(w)
    /\ returned' = returned + r.cnt
    /\ r' = [r EXCEPT !.pc = "idle"]
    /\ UNCHANGED <<rb, w, mode, accepted, ringHist, nextVal, ops, segVars, vadVars, dspVars>>

InitC == InitConc /\ IdleSeg /\ IdleVad /\ IdleDsp

NextConc ==
    \/ WCall \/ WCond \/ WStore \/ WAdvance \/ WLoadCount \/ WStoreCount \/ WReturn
    \/ RCall \/ RCond \/ RCopy \/ RAdvance \/ RLoadCount \/ RStoreCount \/ RReturn

SpecConc == InitC /\ [][NextConc]_vars

\* C5: there is no lock inside ring_write / ring_read.  When each call runs
\* atomically (mode "atomic"), count equals the samples accepted by writes
\* minus the samples returned by reads whenever both threads are outside
\* their calls; when the loads and stores of count interleave, a state
\* where the two differ is reachable (C5_Witness).
C5_AtomicCallsKeepCount ==
    (mode = "atomic" /\ w.pc = "idle" /\ r.pc = "idle")
        => rb.count = accepted - returned

\* Interleaved calls have returned and count has lost an update.
C5_Witness ==
    /\ mode = "interleaved" /\ w.pc = "idle" /\ r.pc = "idle"
    /\ accepted > 0 /\ returned > 0
    /\ rb.count # accepted - returned

(***************************************************************************)
(* Energy gate.  A sample is an integer amplitude.  audio_rms is           *)
(* sqrt(sum of squares / n) and audio_energy_db is 20 log10(rms), or the   *)
(* sentinel -100 when rms < 1e-10 (here: the sum of squares is 0, or the   *)
(* frame is empty).  The threshold energy_thresh is given by the           *)
(* mean-square power P it corresponds to: P = 0 stands for a threshold at  *)
(* or below -100 dB, which the sentinel itself passes; for P >= 1,         *)
(* 20 log10(rms) >= energy_thresh is sum of squares >= P * n.              *)
(***************************************************************************)
RECURSIVE SumSq(_)
\* The accumulation loop of audio_rms.
SumSq(frame) ==
    IF frame = <<>> THEN 0 ELSE Head(frame) * Head(frame) + SumSq(Tail(frame))

\* audio_energy_db(frame) >= energy_thresh, with energy_thresh given as the power P.
EnergyAtLeast(frame, P) ==
    IF Len(frame) = 0 \/ SumSq(frame) = 0
    THEN P = 0
    ELSE SumSq(frame) >= P * Len(frame)

\* samples + off, frame_size: the frame of len samples starting at offset off.
Frame(samples, off, len) == SubSeq(samples, off + 1, off + len)

(***************************************************************************)
(* find_voiced_segments, one action per loop iteration                     *)
(***************************************************************************)
SegRates == {0, 500, 1000}
SegAmps == {0, 1}

RECURSIVE SeqsUpTo(_, _)
SeqsUpTo(S, n) ==
    IF n = 0 THEN {<<>>}
    ELSE LET shorter == SeqsUpTo(S, n - 1)
         IN shorter \cup {Append(q, x) : q \in {t \in shorter : Len(t) = n - 1}, x \in S}

SegOff == [pc |-> "off"]

InitSegInputs ==
    /\ \E samples \in SeqsUpTo(SegAmps, MaxSegLen), rate \in SegRates,
          ms \in 0 .. MaxFrameMs, P \in 0 .. MaxThresh,
          lo \in 0 .. MaxDurMs, hi \in 0 .. MaxDurMs, cap \in 0 .. MaxSegments :
         sin = [samples |-> samples, n |-> Len(samples), sample_rate |-> rate,
                frame_ms |-> ms, energy_thresh |-> P, min_dur_ms |-> lo,
                max_dur_ms |-> hi, max_segments |-> cap]
    /\ sg = [pc |-> "call", frame_size |-> 0, min_frames |-> 0, max_frames |-> 0,
             seg_count |-> 0, voiced_run |-> 0, run_start |-> 0, off |-> 0,
             out_starts |-> [k \in 0 .. sin.max_segments - 1 |-> -1],
             out_ends |-> [k \in 0 .. sin.max_segments - 1 |-> -1],
             emitted_run |-> <<>>, trailing |-> FALSE, ret |-> -1]

IdleRing ==
    /\ rb = ring_create(0)
    /\ lastOp = NoOp
    /\ fifo = <<>>
    /\ phase = "writes"
    /\ nextVal = 0
    /\ ops = 0
    /\ hist = NoHist

\* Variant of SegTooShort with a plausible slip: only frame_size = 0 is tested.
SegTooShortZeroOnly(frame_size, n) == frame_size = 0
\* The test of line 447: frame_size == 0 || n < frame_size.
SegTooShort(frame_size, n) == frame_size = 0 \/ n < frame_size

\* Lines 446-453: frame_size, the early return, min_frames and max_frames.
SegEnter ==
    /\ sg.pc = "call"
    /\ LET frame_size == (sin.sample_rate * sin.frame_ms) \div 1000
       IN IF SegTooShort(frame_size, sin.n)
          THEN sg' = [sg EXCEPT !.pc = "done", !.frame_size = frame_size, !.ret = 0]
          ELSE sg' = [sg EXCEPT !.pc = "loop", !.frame_size = frame_size,
                        !.min_frames = (sin.min_dur_ms + sin.frame_ms - 1) \div sin.frame_ms,
                        !.max_frames = sin.max_dur_ms \div sin.frame_ms]
    /\ UNCHANGED <<sin, ringVars, concVars, vadVars, dspVars>>

\* Variant of RunQualifies with a plausible slip: the minimum is exclusive.
RunQualifiesStrictMin(s, max_segments) ==
    /\ s.voiced_run > s.min_frames /\ s.voiced_run <= s.max_frames
    /\ s.seg_count < max_segments
\* The test of lines 461-462 and 471-472.
RunQualifies(s, max_segments) ==
    /\ s.voiced_run >= s.min_frames /\ s.voiced_run <= s.max_frames
    /\ s.seg_count < max_segments

\* Variant of Emit with a plausible slip: the end is the last sample of the run, not one past it.
EmitInclusiveEnd(s, end) ==
    [s EXCEPT !.out_starts[s.seg_count] = s.run_start,
              !.out_ends[s.seg_count]   = end - 1,
              !.seg_count = s.seg_count + 1,
              !.emitted_run = Append(s.emitted_run, s.voiced_run)]
\* Lines 463-465 and 473-475: store [run_start, end) and count it.
Emit(s, end) ==
    [s EXCEPT !.out_starts[s.seg_count] = s.run_start,
              !.out_ends[s.seg_count]   = end,
              !.seg_count = s.seg_count + 1,
              !.emitted_run = Append(s.emitted_run, s.voiced_run)]

\* The loop condition of line 455: off + frame_size <= n.
SegLoopCond == sg.off + sg.frame_size <= sin.n

\* The energy test of lines 456-457 on the frame at off.
SegFrameVoiced ==
    EnergyAtLeast(Frame(sin.samples, sg.off, sg.frame_size), sin.energy_thresh)

\* Lines 457-459, then off += frame_size.
SegVoicedFrame ==
    /\ sg.pc = "loop" /\ SegLoopCond /\ SegFrameVoiced
    /\ sg' = [sg EXCEPT !.run_start = IF sg.voiced_run = 0 THEN sg.off ELSE sg.run_start,
                        !.voiced_run = sg.voiced_run + 1,
                        !.off = sg.off + sg.frame_size]
    /\ UNCHANGED <<sin, ringVars, concVars, vadVars, dspVars>>

\* Lines 460-468, then off += frame_size.
SegUnvoicedFrame ==
    /\ sg.pc = "loop" /\ SegLoopCond /\ ~SegFrameVoiced
    /\ sg' = [(IF RunQualifies(sg, sin.max_segments) THEN Emit(sg, sg.off) ELSE sg)
                 EXCEPT !.voiced_run = 0, !.off = sg.off + sg.frame_size]
    /\ UNCHANGED <<sin, ringVars, concVars, vadVars, dspVars>>

\* Lines 470-477: the loop has ended; the trailing segment and the return.
SegTrailing ==
    /\ sg.pc = "loop" /\ ~SegLoopCond
    /\ LET s == IF RunQualifies(sg, sin.max_segments)
                THEN [Emit(sg, sin.n) EXCEPT !.trailing = TRUE]
                ELSE sg
       IN sg' = [s EXCEPT !.pc = "done", !.ret = s.seg_count]
    /\ UNCHANGED <<sin, ringVars, concVars, vadVars, dspVars>>

InitS == InitSegInputs /\ IdleRing /\ IdleConc /\ IdleVad /\ IdleDsp

NextSeg == SegEnter \/ SegVoicedFrame \/ SegUnvoicedFrame \/ SegTrailing

SpecSeg == InitS /\ [][NextSeg]_vars

(***************************************************************************)
(* Properties of find_voiced_segments, checked under SpecSeg.  They are    *)
(* stated over the frames of the input, independently of the scan: frame k *)
(* (k = 0, 1, ...) covers samples [k * frameSize, (k + 1) * frameSize).    *)
(***************************************************************************)
CeilDiv(a, b) == IF a % b = 0 THEN a \div b ELSE (a \div b) + 1
SegFrameSize == (sin.sample_rate * sin.frame_ms) \div 1000
SegNumFrames == sin.n \div SegFrameSize
SegMinFrames == CeilDiv(sin.min_dur_ms, sin.frame_ms)
SegMaxFrames == sin.max_dur_ms \div sin.frame_ms
FrameIsVoiced(k) ==
    EnergyAtLeast(Frame(sin.samples, k * SegFrameSize, SegFrameSize), sin.energy_thresh)

\* The call has returned after scanning at least one frame.
SegScanned == sg.pc = "done" /\ SegFrameSize > 0 /\ sin.n >= SegFrameSize

\* The maximal runs of voiced frames, as pairs <<first frame, frame after the last>>.
MaximalRuns ==
    {run \in (0 .. SegNumFrames) \X (0 .. SegNumFrames) :
        /\ run[1] < run[2]
        /\ \A k \in run[1] .. run[2] - 1 : FrameIsVoiced(k)
        /\ run[1] = 0 \/ ~FrameIsVoiced(run[1] - 1)
        /\ run[2] = SegNumFrames \/ ~FrameIsVoiced(run[2])}
RunLen(run) == run[2] - run[1]
RunStartSample(run) == run[1] * SegFrameSize
\* A run ended by an unvoiced frame ends at that frame's offset, the trailing run at n.
RunEndSample(run) == IF run[2] = SegNumFrames THEN sin.n ELSE run[2] * SegFrameSize
QualifyingRuns == {run \in MaximalRuns : SegMinFrames <= RunLen(run) /\ RunLen(run) <= SegMaxFrames}

\* C6: with exactly one run of voiced frames, bounded by unvoiced frames on
\* both sides, the result is exactly the segment [first voiced frame offset,
\* offset of the frame after the run) when the run has minFrames frames (and
\* minFrames <= maxFrames, maxSegments >= 1), no segment when the run is one
\* frame shorter than minFrames, and no segment when the run is longer than
\* maxFrames.
C6_SingleRunBoundaries ==
    SegScanned =>
      \A run \in MaximalRuns :
        (MaximalRuns = {run} /\ run[1] >= 1 /\ run[2] < SegNumFrames) =>
          /\ (RunLen(run) = SegMinFrames /\ SegMinFrames <= SegMaxFrames
                 /\ sin.max_segments >= 1)
               => /\ sg.ret = 1
                  /\ sg.out_starts[0] = RunStartSample(run)
                  /\ sg.out_ends[0] = run[2] * SegFrameSize
          /\ RunLen(run) = SegMinFrames - 1 => sg.ret = 0
          /\ RunLen(run) > SegMaxFrames => sg.ret = 0

\* C6 for a positive minimum duration (the part of C6 the code satisfies).
C6_SingleRunBoundariesPositiveMin ==
    sin.min_dur_ms >= 1 => C6_SingleRunBoundaries

\* C7: the returned count never exceeds maxSegments, and the segments
\* returned are the earliest runs with minFrames <= runFrames <= maxFrames,
\* in input order: the i-th segment is the i-th such run, and a run is left
\* out only if it does not qualify or maxSegments segments precede it.
C7_EarliestQualifyingRuns ==
    SegScanned =>
      /\ sg.ret <= sin.max_segments
      /\ sg.ret = Min(sin.max_segments, Cardinality(QualifyingRuns))
      /\ \A run \in QualifyingRuns :
           LET idx == Cardinality({q \in QualifyingRuns : q[1] < run[1]})
           IN idx < sin.max_segments =>
                /\ sg.out_starts[idx] = RunStartSample(run)
                /\ sg.out_ends[idx] = RunEndSample(run)

\* C7 for a positive minimum duration (the part of C7 the code satisfies).
C7_EarliestQualifyingRunsPositiveMin ==
    sin.min_dur_ms >= 1 => C7_EarliestQualifyingRuns

\* C8: a segment is emitted, in the scan or as the trailing segment, only
\* when a run is active: at least one voiced frame since the last unvoiced
\* frame.  For every minDurMs, including 0.
C8_EmitOnlyActiveRun ==
    sg.pc # "off" =>
      \A i \in 1 .. Len(sg.emitted_run) : sg.emitted_run[i] >= 1

\* C9: every returned segment starts at a multiple of frameSize and ends at
\* a multiple of frameSize, except that the last one, when it was emitted as
\* the trailing segment, ends at n.
C9_FrameAligned ==
    SegScanned =>
      \A i \in 0 .. sg.ret - 1 :
        /\ sg.out_starts[i] % SegFrameSize = 0
        /\ IF sg.trailing /\ i = sg.ret - 1
           THEN sg.out_ends[i] = sin.n
           ELSE sg.out_ends[i] % SegFrameSize = 0

\* A trailing run that starts after an unvoiced frame was returned, ending
\* at an n that is not a multiple of frameSize.
C9_Witness ==
    /\ SegScanned /\ sg.trailing /\ sg.ret >= 1
    /\ sg.voiced_run >= 1 /\ sin.min_dur_ms >= 1
    /\ SegFrameSize >= 2 /\ sin.n % SegFrameSize # 0
    /\ sg.out_starts[sg.ret - 1] > 0

(***************************************************************************)
(* vad_detect and vad_detect_frames.  The zero-crossing thresholds zcr_low *)
(* and zcr_high are ratios <<num, den>>; crossings / (n - 1) is compared   *)
(* with num / den by cross-multiplication.                                 *)
(***************************************************************************)
RECURSIVE Crossings(_)
\* The counting loop of audio_zero_crossing_rate: sign changes between neighbours.
Crossings(frame) ==
    IF Len(frame) < 2 THEN 0
    ELSE (IF (frame[1] >= 0) # (frame[2] >= 0) THEN 1 ELSE 0) + Crossings(Tail(frame))

\* audio_zero_crossing_rate(frame) as a ratio <<numerator, denominator>>; 0 for n < 2.
audio_zero_crossing_rate(frame) ==
    IF Len(frame) < 2 THEN <<0, 1>> ELSE <<Crossings(frame), Len(frame) - 1>>

RatioLess(a, b) == a[1] * b[2] < b[1] * a[2]

\* vad_detect(frame, n, energy_thresh, zcr_low, zcr_high): 1 or 0.
vad_detect(frame, P, zcr_low, zcr_high) ==
    IF ~EnergyAtLeast(frame, P) THEN 0
    ELSE IF RatioLess(audio_zero_crossing_rate(frame), zcr_low)
            \/ RatioLess(zcr_high, audio_zero_crossing_rate(frame)) THEN 0
    ELSE 1

VadAmps == {-1, 0, 1}
ZcrLevels == {<<0, 1>>, <<1, 2>>, <<1, 1>>}

\* The arguments; out_flags is allocated by the caller with room for
\* total_samples + 1 flags, which is enough for every hop_size >= 1.
InitVadInputs ==
    /\ \E samples \in SeqsUpTo(VadAmps, MaxVadLen), fs \in 0 .. MaxVadFrame,
          hop \in 0 .. MaxHop, P \in 0 .. MaxThresh,
          lo \in ZcrLevels, hi \in ZcrLevels :
         vin = [samples |-> samples, total_samples |-> Len(samples),
                frame_size |-> fs, hop_size |-> hop, energy_thresh |-> P,
                zcr_low |-> lo, zcr_high |-> hi]
    /\ vd = [pc |-> "loop", offset |-> 0, num_frames |-> 0,
             out_flags |-> [k \in 0 .. vin.total_samples |-> -1],
             visited |-> <<>>, ret |-> -1]

\* Variant of VadLoopCond with a plausible slip: the comparison is strict.
VadLoopCondStrict == vd.offset + vin.frame_size < vin.total_samples
\* The loop condition of line 165: offset + frame_size <= total_samples.
VadLoopCond == vd.offset + vin.frame_size <= vin.total_samples

\* Lines 166-170 and offset += hop_size: classify the frame at offset.
VadFrame ==
    /\ vd.pc = "loop" /\ VadLoopCond
    /\ vd.num_frames \in DOMAIN vd.out_flags
    /\ vd' = [vd EXCEPT !.out_flags[vd.num_frames] =
                            vad_detect(Frame(vin.samples, vd.offset, vin.frame_size),
                                       vin.energy_thresh, vin.zcr_low, vin.zcr_high),
                        !.num_frames = vd.num_frames + 1,
                        !.visited = Append(vd.visited, vd.offset),
                        !.offset = vd.offset + vin.hop_size]
    /\ UNCHANGED <<vin, ringVars, concVars, segVars, dspVars>>

\* Line 166 with num_frames past the end of the caller's out_flags: the
\* store is out of bounds and the call's behaviour is undefined from here.
VadOverrun ==
    /\ vd.pc = "loop" /\ VadLoopCond
    /\ vd.num_frames \notin DOMAIN vd.out_flags
    /\ vd' = [vd EXCEPT !.pc = "overrun"]
    /\ UNCHANGED <<vin, ringVars, concVars, segVars, dspVars>>

\* Line 172: the loop has ended; return num_frames.
VadReturn ==
    /\ vd.pc = "loop" /\ ~VadLoopCond
    /\ vd' = [vd EXCEPT !.pc = "done", !.ret = vd.num_frames]
    /\ UNCHANGED <<vin, ringVars, concVars, segVars, dspVars>>

InitV == InitVadInputs /\ IdleRing /\ IdleConc /\ IdleSeg /\ IdleDsp

NextVad == VadFrame \/ VadOverrun \/ VadReturn

SpecVad == InitV /\ [][NextVad]_vars

\* C10: vad_detect_frames classifies the frames at offsets 0, hop, 2 hop, ...
\* in increasing order while offset + frameSize <= totalLen, writes flag k
\* for the frame at offset k * hop, and returns
\* floor((totalLen - frameSize) / hop) + 1 when totalLen >= frameSize and 0
\* otherwise.
C10_FlagPerHop ==
    vd.pc = "done" =>
      /\ vin.total_samples >= vin.frame_size =>
            /\ vin.hop_size >= 1
            /\ vd.ret = ((vin.total_samples - vin.frame_size) \div vin.hop_size) + 1
      /\ vin.total_samples < vin.frame_size => vd.ret = 0
      /\ vd.visited = [k \in 1 .. vd.ret |-> (k - 1) * vin.hop_size]
      /\ \A k \in 0 .. vd.ret - 1 :
            /\ k * vin.hop_size + vin.frame_size <= vin.total_samples
            /\ vd.out_flags[k] =
                 vad_detect(Frame(vin.samples, k * vin.hop_size, vin.frame_size),
                            vin.energy_thresh, vin.zcr_low, vin.zcr_high)

\* Two or more frames with a hop that does not divide totalLen - frameSize,
\* one classified voiced and one unvoiced.
C10_Witness ==
    /\ vd.pc = "done" /\ vd.ret >= 2 /\ vin.hop_size >= 2
    /\ vin.frame_size >= 1
    /\ (vin.total_samples - vin.frame_size) % vin.hop_size # 0
    /\ \E j, k \in 0 .. vd.ret - 1 : vd.out_flags[j] = 1 /\ vd.out_flags[k] = 0

\* C11: every core operation returns after a number of steps bounded by its
\* input size.  For vad_detect_frames (also with hopSize = 0): the loop
\* classifies at most total_samples + 1 frames and never stores past the
\* total_samples + 1 flags the caller provides.
C11_VadBoundedByInput ==
    vd.pc # "off" =>
      /\ vd.num_frames <= vin.total_samples + 1
      /\ vd.pc # "overrun"

\* C11 for a positive hop (the part of C11 that vad_detect_frames satisfies).
C11_VadBoundedByInputPositiveHop ==
    (vd.pc # "off" /\ vin.hop_size >= 1) => C11_VadBoundedByInput

(***************************************************************************)
(* Further properties of find_voiced_segments, checked under SpecSeg       *)
(***************************************************************************)

\* C19: the returned segments are non-empty, in increasing order and
\* pairwise disjoint: out_starts[i] < out_ends[i] <= n for every returned i,
\* and out_ends[i] <= out_starts[i+1] for consecutive segments.
C19_SegmentsOrderedDisjoint ==
    sg.pc = "done" =>
      /\ \A i \in 0 .. sg.ret - 1 :
            sg.out_starts[i] < sg.out_ends[i] /\ sg.out_ends[i] <= sin.n
      /\ \A i \in 0 .. sg.ret - 2 : sg.out_ends[i] <= sg.out_starts[i + 1]

\* C19 for a positive minimum duration (the part of C19 the code satisfies).
C19_SegmentsOrderedDisjointPositiveMin ==
    sin.min_dur_ms >= 1 => C19_SegmentsOrderedDisjoint

(***************************************************************************)
(* Further properties of the ring buffer, checked under Spec               *)
(***************************************************************************)

\* What a caller observes from b over ring_write(n1), ring_read(m1),
\* ring_write(n2), ring_read(m2): the returned counts and samples.
Observed(b, n1, m1, n2, m2) ==
    LET w1 == WriteLoop(b, Fresh(nextVal, n1), n1, 0)
        r1 == ReadLoop(w1.rb, <<>>, m1, 0)
        w2 == WriteLoop(r1.rb, Fresh(nextVal + n1, n2), n2, 0)
        r2 == ReadLoop(w2.rb, <<>>, m2, 0)
    IN <<w1.ret, r1.ret, r1.out, w2.ret, r2.ret, r2.out, r2.rb.count>>

\* C13: ring_clear sets write_pos, read_pos and count to 0 and changes
\* nothing else (capacity and storage stay as they were); afterwards
\* ring_available() is 0 and the buffer accepts and returns samples as a
\* freshly created buffer of the same capacity does.
C13_ClearResets ==
    lastOp.op = "clear" =>
      /\ rb.write_pos = 0 /\ rb.read_pos = 0 /\ rb.count = 0
      /\ rb.capacity = lastOp.pre.capacity
      /\ rb.buf = lastOp.pre.buf
      /\ \A n1, m1, n2, m2 \in 0 .. Min(MaxN, rb.capacity + 1) :
            Observed(rb, n1, m1, n2, m2)
              = Observed(ring_create(rb.capacity), n1, m1, n2, m2)

\* ring_clear ran on a buffer holding unread samples, with both cursors moved.
C13_Witness ==
    /\ lastOp.op = "clear"
    /\ lastOp.pre.count > 0 /\ lastOp.pre.read_pos > 0 /\ lastOp.pre.write_pos > 0
    /\ rb.count = 0 /\ \E k \in DOMAIN rb.buf : rb.buf[k] # 0

IsPrefix(p, q) == Len(p) <= Len(q) /\ p = Take(q, Len(p))

\* C16: over any sequence of ring_write and ring_read calls, the samples
\* returned by reads, concatenated, are a prefix of the samples accepted by
\* writes, concatenated, and the accepted samples not yet returned are
\* exactly the stored ones: nothing accepted is lost, duplicated or
\* reordered and nothing dropped by a short write is returned.
C16_ReturnedPrefixOfAccepted ==
    ~hist.cleared =>
      /\ IsPrefix(hist.returned, hist.accepted)
      /\ hist.accepted = hist.returned \o RingContents

\* More samples than the capacity were returned, the last of them accepted
\* after a short write dropped samples.
C16_Witness ==
    /\ ~hist.cleared /\ rb.capacity >= 2
    /\ Len(hist.returned) > rb.capacity
    /\ hist.returned[Len(hist.returned)] > Len(hist.accepted)
    /\ IsPrefix(hist.returned, hist.accepted)

\* C17: for capacity C >= 1, write_pos = (read_pos + count) mod C; so
\* write_pos = read_pos exactly when the buffer is empty or full.
C17_CursorDistance ==
    rb.capacity >= 1 =>
      /\ rb.write_pos = (rb.read_pos + rb.count) % rb.capacity
      /\ (rb.write_pos = rb.read_pos) <=> (rb.count = 0 \/ rb.count = rb.capacity)

\* A full buffer whose cursors meet away from slot 0.
C17_Witness ==
    /\ rb.capacity >= 2 /\ rb.count = rb.capacity
    /\ rb.write_pos = rb.read_pos /\ rb.read_pos > 0

\* C18: ring_write changes neither read_pos nor any stored sample still
\* unread; ring_read changes neither write_pos nor any stored sample;
\* ring_available changes nothing; a write of n = 0 or on a full buffer and
\* a read of n = 0 or on an empty buffer leave the whole struct unchanged.
C18_OwnSideOnly ==
    LET pre == lastOp.pre IN
    /\ lastOp.op = "write" =>
         /\ rb.read_pos = pre.read_pos
         /\ rb.capacity = pre.capacity
         /\ \A k \in 0 .. pre.count - 1 :
               rb.buf[(pre.read_pos + k) % pre.capacity]
                 = pre.buf[(pre.read_pos + k) % pre.capacity]
         /\ (lastOp.n = 0 \/ pre.count = pre.capacity) => rb = pre
    /\ lastOp.op = "read" =>
         /\ rb.write_pos = pre.write_pos
         /\ rb.capacity = pre.capacity
         /\ rb.buf = pre.buf
         /\ (lastOp.n = 0 \/ pre.count = 0) => rb = pre
    /\ lastOp.op = "available" => rb = pre

\* A write into a buffer holding unread samples, storing round the end of the storage.
C18_Witness ==
    /\ lastOp.op = "write" /\ lastOp.pre.count > 0 /\ lastOp.ret >= 2
    /\ rb.write_pos < lastOp.pre.write_pos
    /\ rb.buf # lastOp.pre.buf

(***************************************************************************)
(* audio_preemphasis, one action per loop iteration.  Samples and coeff    *)
(* are integers here, so the arithmetic is exact; the rounding of float    *)
(* products is not modelled.  samples[k] of the source is element k + 1 of *)
(* the sequence.                                                           *)
(***************************************************************************)
PreAmps == {-1, 1, 2}

InitPreInputs ==
    /\ \E samples \in SeqsUpTo(PreAmps, MaxPreLen), coeff \in 0 .. MaxCoeff :
         pin = [samples |-> samples, n |-> Len(samples), coeff |-> coeff]
    /\ pe = [pc |-> "call", samples |-> pin.samples, i |-> 0]

\* Line 181, and the loop initialisation i = n - 1 of line 183.
PreEnter ==
    /\ pe.pc = "call"
    /\ pe' = IF pin.n < 2
             THEN [pe EXCEPT !.pc = "done"]
             ELSE [pe EXCEPT !.pc = "loop", !.i = pin.n - 1]
    /\ UNCHANGED <<pin, rin, rs, ringVars, concVars, segVars, vadVars>>

\* Line 184: samples[i] = samples[i] - coeff * samples[i - 1].
PreBody(s, i, coeff) == [s EXCEPT ![i + 1] = s[i + 1] - coeff * s[i]]

\* Lines 183-185: one iteration while i >= 1, then --i.
PreStep ==
    /\ pe.pc = "loop" /\ pe.i >= 1
    /\ pe' = [pe EXCEPT !.samples = PreBody(pe.samples, pe.i, pin.coeff),
                        !.i = pe.i - 1]
    /\ UNCHANGED <<pin, rin, rs, ringVars, concVars, segVars, vadVars>>

\* Variant of PreFirstSample with a plausible slip: the first sample is left unscaled.
PreFirstSampleUnscaled(s, coeff) == s
\* Line 187: samples[0] = samples[0] * (1.0f - coeff).
PreFirstSample(s, coeff) == [s EXCEPT ![1] = s[1] * (1 - coeff)]

\* Lines 186-188: the loop has ended; scale the first sample and return.
PreFirst ==
    /\ pe.pc = "loop" /\ ~(pe.i >= 1)
    /\ pe' = [pe EXCEPT !.samples = PreFirstSample(pe.samples, pin.coeff),
                        !.pc = "done"]
    /\ UNCHANGED <<pin, rin, rs, ringVars, concVars, segVars, vadVars>>

IdleRes == rin = <<>> /\ rs = [pc |-> "off"]

InitP == InitPreInputs /\ IdleRes /\ IdleRing /\ IdleConc /\ IdleSeg /\ IdleVad

NextPre == PreEnter \/ PreStep \/ PreFirst

SpecPre == InitP /\ [][NextPre]_vars

\* C14: for n >= 2, audio_preemphasis leaves y[i] = x[i] - coeff * x[i-1]
\* for every i in 1..n-1 and y[0] = x[0] * (1 - coeff), every x being the
\* original input value; for n < 2 the sequence is unchanged.
C14_UsesOriginalPredecessor ==
    pe.pc = "done" =>
      /\ Len(pe.samples) = pin.n
      /\ pin.n >= 2 =>
            /\ \A k \in 2 .. pin.n :
                  pe.samples[k] = pin.samples[k] - pin.coeff * pin.samples[k - 1]
            /\ pe.samples[1] = pin.samples[1] * (1 - pin.coeff)
      /\ pin.n < 2 => pe.samples = pin.samples

\* Three or more samples filtered with a coefficient that changes every one of them.
C14_Witness ==
    /\ pe.pc = "done" /\ pin.n >= 3 /\ pin.coeff >= 2
    /\ \A k \in 1 .. pin.n : pe.samples[k] # pin.samples[k]

(***************************************************************************)
(* Natural numbers of any size, as sequences of digits in base 2^15, least *)
(* significant digit first, without leading zeros (zero is <<>>).  They    *)
(* carry the 53-bit significands of the doubles of audio_resample_linear.  *)
(***************************************************************************)
Base == 2^15

RECURSIVE BigOfNat(_)
BigOfNat(n) == IF n = 0 THEN <<>> ELSE <<n % Base>> \o BigOfNat(n \div Base)

RECURSIVE BigToNat(_)
BigToNat(a) == IF a = <<>> THEN 0 ELSE Head(a) + Base * BigToNat(Tail(a))

Front(a) == SubSeq(a, 1, Len(a) - 1)

RECURSIVE BigNorm(_)
BigNorm(a) == IF a # <<>> /\ a[Len(a)] = 0 THEN BigNorm(Front(a)) ELSE a

\* a * k + carry, for 0 <= k < 2^16.
RECURSIVE BigMulSmall(_, _, _)
BigMulSmall(a, k, carry) ==
    IF a = <<>> THEN BigOfNat(carry)
    ELSE LET t == Head(a) * k + carry
         IN BigNorm(<<t % Base>> \o BigMulSmall(Tail(a), k, t \div Base))

\* -1, 0 or 1 as a < b, a = b or a > b.
RECURSIVE BigCmp(_, _)
BigCmp(a, b) ==
    IF Len(a) # Len(b) THEN (IF Len(a) < Len(b) THEN -1 ELSE 1)
    ELSE IF a = <<>> THEN 0
    ELSE IF a[Len(a)] # b[Len(b)] THEN (IF a[Len(a)] < b[Len(b)] THEN -1 ELSE 1)
    ELSE BigCmp(Front(a), Front(b))

\* a - b - borrow, for a >= b + borrow.
RECURSIVE BigSubDigits(_, _, _)
BigSubDigits(a, b, borrow) ==
    IF a = <<>> THEN <<>>
    ELSE LET y == (IF b = <<>> THEN 0 ELSE Head(b)) + borrow
             rest == IF b = <<>> THEN <<>> ELSE Tail(b)
         IN IF Head(a) >= y
            THEN <<Head(a) - y>> \o BigSubDigits(Tail(a), rest, 0)
            ELSE <<Head(a) + Base - y>> \o BigSubDigits(Tail(a), rest, 1)

BigSub(a, b) == BigNorm(BigSubDigits(a, b, 0))

\* Quotient and remainder of (rem * Base^Len(a) + a) by k, for 0 <= rem < k < 2^16;
\* the quotient keeps the Len(a) digit positions of a.
RECURSIVE BigDivDigits(_, _, _)
BigDivDigits(a, k, rem) ==
    IF a = <<>> THEN [q |-> <<>>, r |-> rem]
    ELSE LET t == rem * Base + a[Len(a)]
             rest == BigDivDigits(Front(a), k, t % k)
         IN [q |-> rest.q \o <<t \div k>>, r |-> rest.r]

BigDivSmall(a, k) ==
    LET d == BigDivDigits(a, k, 0) IN [q |-> BigNorm(d.q), r |-> d.r]

RECURSIVE BitsOfNat(_)
BitsOfNat(n) == IF n = 0 THEN 0 ELSE 1 + BitsOfNat(n \div 2)

\* The number of binary digits of a.
BigBits(a) == IF a = <<>> THEN 0 ELSE 15 * (Len(a) - 1) + BitsOfNat(a[Len(a)])

\* a * 2^s.
RECURSIVE BigShl(_, _)
BigShl(a, s) ==
    IF s = 0 THEN a
    ELSE IF s >= 15 THEN BigShl(BigMulSmall(a, Base, 0), s - 15)
    ELSE BigMulSmall(a, 2^s, 0)

\* floor(a / 2^s) and whether bits were lost: [q, r] with r = 0 iff 2^s divides a.
RECURSIVE BigShr(_, _)
BigShr(a, s) ==
    IF s = 0 THEN [q |-> a, r |-> 0]
    ELSE LET t == IF s >= 15 THEN 15 ELSE s
             d == BigDivSmall(a, 2^t)
             rest == BigShr(d.q, s - t)
         IN [q |-> rest.q, r |-> IF d.r # 0 \/ rest.r # 0 THEN 1 ELSE 0]

(***************************************************************************)
(* IEEE-754 binary64 as the build uses it for `double`: a finite           *)
(* non-negative double is [m, e] and stands for m * 2^e; m is <<>> for     *)
(* zero and has exactly DoubleBits binary digits otherwise.  Results are   *)
(* rounded to nearest, ties to even.  Overflow, subnormals and negative    *)
(* values do not arise for the inputs of the model.                        *)
(***************************************************************************)
DoubleBits == 53

DoubleZero == [m |-> <<>>, e |-> 0]

\* The double nearest to m * 2^e (m of any size), ties to even.
DoubleRound(m, e) ==
    LET bits == BigBits(m)
    IN IF m = <<>> THEN DoubleZero
       ELSE IF bits <= DoubleBits
       THEN [m |-> BigShl(m, DoubleBits - bits), e |-> e - (DoubleBits - bits)]
       ELSE LET s    == bits - DoubleBits
                q    == BigShr(m, s).q
                rem  == BigSub(m, BigShl(q, s))
                half == BigCmp(rem, BigShl(<<1>>, s - 1))
                up   == half = 1 \/ (half = 0 /\ q[1] % 2 = 1)
                sig  == IF up THEN BigMulSmall(q, 1, 1) ELSE q
            IN IF BigBits(sig) > DoubleBits
               THEN [m |-> BigShr(sig, 1).q, e |-> e + s + 1]
               ELSE [m |-> sig, e |-> e + s]

\* static_cast<double>(n) of a uint32_t: exact.
DoubleOfNat(n) == DoubleRound(BigOfNat(n), 0)

\* floor(rem * 2^k / d) for rem < d, with the quotient so far in q, and the final
\* remainder.  The test on the lengths has the two operands evaluated at each step.
RECURSIVE BigLongDiv(_, _, _, _)
BigLongDiv(rem, d, k, q) ==
    IF k = 0 THEN [q |-> q, r |-> rem]
    ELSE LET r2  == BigMulSmall(rem, 2, 0)
             bit == IF BigCmp(r2, d) >= 0 THEN 1 ELSE 0
             r3  == IF bit = 1 THEN BigSub(r2, d) ELSE r2
             q2  == BigMulSmall(q, 2, bit)
         IN IF Len(r3) + Len(q2) >= 0 THEN BigLongDiv(r3, d, k - 1, q2) ELSE [q |-> q2, r |-> r3]

\* a / b on doubles, a > 0 and b > 0: the quotient of the significands to
\* DoubleBits + 2 binary places and a sticky bit, then rounded.
DoubleDiv(a, b) ==
    LET k    == DoubleBits + 2
        int  == IF BigCmp(a.m, b.m) >= 0 THEN 1 ELSE 0
        rem0 == IF int = 1 THEN BigSub(a.m, b.m) ELSE a.m
        d    == BigLongDiv(rem0, b.m, k, BigOfNat(int))
        st   == IF d.r = <<>> THEN 0 ELSE 1
    IN DoubleRound(BigMulSmall(d.q, 2, st), a.e - b.e - k - 1)

\* (double)i * x for a uint32_t i < 2^16 and a double x.
DoubleMulNat(i, x) == DoubleRound(BigMulSmall(x.m, i, 0), x.e)

\* The integer and fractional parts of a double below 2^DoubleBits:
\* [int |-> floor(x), frac |-> x - floor(x)]; the subtraction is exact.
DoubleSplit(x) ==
    IF x.m = <<>> THEN [int |-> 0, frac |-> DoubleZero]
    ELSE IF x.e >= 0 THEN [int |-> BigToNat(BigShl(x.m, x.e)), frac |-> DoubleZero]
    ELSE LET q == BigShr(x.m, -x.e).q
         IN [int |-> BigToNat(q),
             frac |-> DoubleRound(BigSub(x.m, BigShl(q, -x.e)), x.e)]

\* std::ceil(x) as an integer.
DoubleCeil(x) ==
    LET p == DoubleSplit(x) IN IF p.frac.m = <<>> THEN p.int ELSE p.int + 1

(***************************************************************************)
(* audio_resample_linear, one action per output sample.  in[k] of the      *)
(* source is element k + 1 of the sequence; the k-th input sample is the   *)
(* label k + 1.  An output sample is kept as the operands of its           *)
(* interpolation, [lo |-> in[idx0], hi |-> in[idx1], frac |-> frac]; its   *)
(* value lo * (1 - frac) + hi * frac is lo exactly when frac is zero.      *)
(***************************************************************************)
ResLens == {0, 1, 2, 17}
ResRates == {0, 1, 2, 7, 17}
\* What a read outside the input array may yield.
ResGarbage == {0, 1}

InitResInputs ==
    /\ \E n \in ResLens, src \in ResRates, dst \in ResRates, cap \in 0 .. MaxOutCap :
         rin = [in |-> [k \in 1 .. n |-> k], in_len |-> n, src_rate |-> src,
                dst_rate |-> dst, out_capacity |-> cap]
    /\ rs = [pc |-> "call", ratio |-> DoubleZero, out_len |-> 0, i |-> 0,
             out |-> [k \in 0 .. rin.out_capacity - 1 |->
                         [lo |-> 0, hi |-> 0, frac |-> DoubleZero]],
             reads |-> {}, writes |-> {}, ret |-> -1]

\* Line 199: ratio = (double)src_rate / (double)dst_rate.
ResRatio(src, dst) == DoubleDiv(DoubleOfNat(src), DoubleOfNat(dst))

\* Lines 200-203: (uint32_t)min((double)out_capacity, ceil((double)in_len / ratio)).
ResOutLen(in_len, ratio, cap) == Min(cap, DoubleCeil(DoubleDiv(DoubleOfNat(in_len), ratio)))

\* Line 197, then lines 199-203 and the loop initialisation i = 0.
ResEnter ==
    /\ rs.pc = "call"
    /\ rs' = IF rin.in_len = 0 \/ rin.src_rate = 0 \/ rin.dst_rate = 0
             THEN [rs EXCEPT !.pc = "done", !.ret = 0]
             ELSE LET ratio == ResRatio(rin.src_rate, rin.dst_rate)
                  IN [rs EXCEPT !.pc = "loop", !.ratio = ratio,
                                !.out_len = ResOutLen(rin.in_len, ratio, rin.out_capacity)]
    /\ UNCHANGED <<rin, pin, pe, ringVars, concVars, segVars, vadVars>>

\* Line 208: idx1 = min(idx0 + 1, in_len - 1).
ResIdx1(idx0, in_len) == Min(idx0 + 1, in_len - 1)

\* in[idx]: the sample, or any value when idx is outside [0, in_len).
ResLoad(in, idx) == IF idx + 1 \in DOMAIN in THEN {in[idx + 1]} ELSE ResGarbage

\* Lines 205-214: one output sample, then ++i.
ResStep ==
    /\ rs.pc = "loop" /\ rs.i < rs.out_len
    /\ LET p    == DoubleSplit(DoubleMulNat(rs.i, rs.ratio))
           idx0 == p.int
           idx1 == ResIdx1(idx0, rin.in_len)
       IN \E a \in ResLoad(rin.in, idx0), b \in ResLoad(rin.in, idx1) :
            rs' = [rs EXCEPT !.out = [rs.out EXCEPT ![rs.i] =
                                         [lo |-> a, hi |-> b, frac |-> p.frac]],
                             !.reads = rs.reads \cup {idx0, idx1},
                             !.writes = rs.writes \cup {rs.i},
                             !.i = rs.i + 1]
    /\ UNCHANGED <<rin, pin, pe, ringVars, concVars, segVars, vadVars>>

\* Line 215: the loop has ended; return out_len.
ResReturn ==
    /\ rs.pc = "loop" /\ ~(rs.i < rs.out_len)
    /\ rs' = [rs EXCEPT !.pc = "done", !.ret = rs.out_len]
    /\ UNCHANGED <<rin, pin, pe, ringVars, concVars, segVars, vadVars>>

IdlePre == pin = <<>> /\ pe = [pc |-> "off"]

InitR == InitResInputs /\ IdlePre /\ IdleRing /\ IdleConc /\ IdleSeg /\ IdleVad

NextRes == ResEnter \/ ResStep \/ ResReturn

SpecRes == InitR /\ [][NextRes]_vars

\* The call has returned on a non-empty input with non-zero rates.
ResRan == rs.pc = "done" /\ rin.in_len >= 1 /\ rin.src_rate >= 1 /\ rin.dst_rate >= 1

\* ceil(in_len / (src_rate / dst_rate)) over the reals: the least k with
\* k * src_rate >= in_len * dst_rate.
ResCeil ==
    CHOOSE k \in 0 .. rin.in_len * rin.dst_rate :
        /\ k * rin.src_rate >= rin.in_len * rin.dst_rate
        /\ \A j \in 0 .. k - 1 : j * rin.src_rate < rin.in_len * rin.dst_rate

\* Output sample k was written and its value is the input sample k.
ResCopied(k) ==
    /\ k \in rs.writes
    /\ rs.out[k].frac = DoubleZero
    /\ rs.out[k].lo = rin.in[k + 1]

\* C15: for non-zero rates and non-empty input, audio_resample_linear
\* returns min(outCapacity, ceil(inputLength / (inRate / outRate))), and
\* when inRate = outRate the first min(inputLength, outCapacity) output
\* samples equal the corresponding input samples.
C15_LengthAndIdentity ==
    ResRan =>
      /\ rs.ret = Min(rin.out_capacity, ResCeil)
      /\ rin.src_rate = rin.dst_rate =>
            \A k \in 0 .. Min(rin.in_len, rin.out_capacity) - 1 : ResCopied(k)

\* The part of C15 about equal rates, which the code keeps.
C15_EqualRatesCopy ==
    (ResRan /\ rin.src_rate = rin.dst_rate) =>
      /\ rs.ret = Min(rin.out_capacity, rin.in_len)
      /\ \A k \in 0 .. rs.ret - 1 : ResCopied(k)

\* C20: for in_len >= 1 and non-zero rates, every index read from the input
\* (idx0 and idx1, for every output index produced) lies in [0, in_len) and
\* every index written to the output lies in [0, out_capacity).
C20_IndicesInRange ==
    (rs.pc \in {"loop", "done"} /\ rin.in_len >= 1
        /\ rin.src_rate >= 1 /\ rin.dst_rate >= 1)
    => /\ rs.reads \subseteq 0 .. rin.in_len - 1
       /\ rs.writes \subseteq 0 .. rin.out_capacity - 1

\* The part of C20 about the output, which the code keeps.
C20_WritesInRange ==
    rs.pc \in {"loop", "done"} =>
       /\ rs.writes = 0 .. rs.i - 1
       /\ rs.i <= rin.out_capacity

(***************************************************************************)
(* The four operations side by side, one call sequence at a time: a run    *)
(* is a sequence of ring operations on one buffer, or one call of          *)
(* find_voiced_segments, vad_detect_frames or audio_resample_linear.       *)
(***************************************************************************)
InitDeg == Init \/ InitS \/ InitV \/ InitR

\* Ring operations, in the runs that started with a ring buffer.
DegRing == sg.pc = "off" /\ vd.pc = "off" /\ rs.pc = "off" /\ Next

NextDeg == DegRing \/ NextSeg \/ NextVad \/ NextRes

SpecDeg == InitDeg /\ [][NextDeg]_vars

\* ring_write or ring_read has just run on a buffer of capacity 0.
DegRingCall ==
    /\ sg.pc = "off" /\ vd.pc = "off" /\ rs.pc = "off"
    /\ lastOp.op \in {"write", "read"} /\ lastOp.pre.capacity = 0

\* audio_resample_linear was called with in_len, src_rate or dst_rate 0.
DegResCall ==
    /\ rs.pc # "off"
    /\ (rin.in_len = 0 \/ rin.src_rate = 0 \/ rin.dst_rate = 0)

\* vad_detect_frames was called with total_samples < frame_size.
DegVadCall == vd.pc # "off" /\ vin.total_samples < vin.frame_size

\* find_voiced_segments was called with a frame size of 0, or with n below it.
DegSegCall ==
    /\ sg.pc # "off"
    /\ LET fs == (sin.sample_rate * sin.frame_ms) \div 1000
       IN fs = 0 \/ sin.n < fs

\* C12: degenerate inputs give degenerate results without a fault: ring_write
\* and ring_read on a capacity-0 buffer return 0 and leave the buffer as it
\* was; audio_resample_linear returns 0 when in_len, src_rate or dst_rate is
\* 0; vad_detect_frames returns 0 flags when total_samples < frame_size;
\* find_voiced_segments returns 0 segments when its frame size is 0 or
\* n < frame size.  None of them reads or writes a sample on the way.
C12_DegenerateInputs ==
    /\ DegRingCall =>
          /\ lastOp.ret = 0 /\ lastOp.out = <<>>
          /\ rb = lastOp.pre /\ fifo = lastOp.queue
    /\ DegResCall =>
          /\ rs.pc \in {"call", "done"}
          /\ rs.pc = "done" => rs.ret = 0
          /\ rs.reads = {} /\ rs.writes = {}
    /\ DegVadCall =>
          /\ vd.pc \in {"loop", "done"}
          /\ vd.pc = "done" => vd.ret = 0
          /\ vd.num_frames = 0 /\ vd.visited = <<>>
    /\ DegSegCall =>
          /\ sg.pc \in {"call", "done"}
          /\ sg.pc = "done" => sg.ret = 0
          /\ sg.seg_count = 0
          /\ \A k \in DOMAIN sg.out_starts : sg.out_starts[k] = -1 /\ sg.out_ends[k] = -1

\* find_voiced_segments has returned on an input shorter than one frame,
\* which a minimum of 0 frames would have accepted as a trailing run.
C12_Witness ==
    /\ DegSegCall /\ sg.pc = "done" /\ sg.frame_size >= 1 /\ sin.n >= 1
    /\ sin.min_dur_ms = 0 /\ sin.max_dur_ms >= 1 /\ sin.max_segments >= 1

\* The other degenerate calls have returned as well: a write of two samples
\* to a capacity-0 buffer, a resampling to rate 0, a classification with a
\* frame longer than the input and a hop of 0.
C12_ReachedRing == DegRingCall /\ lastOp.op = "write" /\ lastOp.n = 2
C12_ReachedRes ==
    DegResCall /\ rs.pc = "done" /\ rin.in_len >= 1 /\ rin.src_rate >= 1
        /\ rin.dst_rate = 0 /\ rin.out_capacity >= 1
C12_ReachedVad ==
    DegVadCall /\ vd.pc = "done" /\ vin.total_samples >= 1 /\ vin.hop_size = 0

====
